---- MODULE Spec2Model ----
(***************************************************************************)
(* A model of ucxxrt's startup.cpp: the table walkers (_initterm,          *)
(* _initterm_e), the pool policy selection (_initialize_pool) and the      *)
(* onexit registry (_register_onexit_function, _execute_onexit_table and   *)
(* the atexit / at_quick_exit facade).                                     *)
(***************************************************************************)
EXTENDS Integers, Sequences, FiniteSets

\* ------------------------------------------------------------------ bounds
\* Number of record addresses the allocator can hand out.
MaxAddr == 3
\* Number of registration calls in one run; the k-th call passes callback k
\* (a function of its own) or nullptr.
MaxReg == 4
\* Number of released records a walk may read before the run is cut off.
MaxStale == 1

\* Longest function-pointer array handed to a table walker.
MaxLen == 3
\* Number of distinct functions a table can point to.
MaxFn == 4
\* Largest major and minor version the version query reports.
MaxMajor == 10
MaxMinor == 3
\* Number of times _initialize_pool runs in one run of the model.
MaxPoolRuns == 2
\* Number of entries the linker puts after the marker of the pre-terminator
\* and of the terminator table, and number of registration calls before the
\* module ends.
MaxTermLen == 1
MaxLifeReg == 2

\* ------------------------------------------------------------------ values
\* nullptr, for record pointers and for function pointers alike.
NULL == 0
Addr == 1..MaxAddr

VARIABLES
    s_onexit_table,        \* head of the normal-exit chain (an address or NULL)
    s_quick_onexit_table,  \* head of the quick-exit chain (an address or NULL)
    heap,                  \* the bytes at each address: the last record written there
    live,                  \* the addresses allocated and not yet deleted
    invoked,               \* the callbacks the last walk invoked, in order
    crashed,               \* the process faulted (null call, access to freed memory)
    uaf,                   \* the last walk read a record that had been deleted
    lastOp,                \* the last call: its name, its callback argument, the
                           \* record it allocated (a drain: walked from), its status
    nextFn,                \* the callback the next registration call may pass
    regN,                  \* callbacks registered by atexit (directly or through onexit
                           \* and _onexit) since the last normal drain
    quickFns,              \* callbacks registered by at_quick_exit
    failedFns,             \* callbacks of registration calls whose allocation failed
    everInvoked,           \* callbacks some walk has invoked
    walker,                \* the table walker that ran last ("none" before any)
    array,                 \* the array its range pointed into
    first,                 \* its first argument: position of the first entry
    last,                  \* its last argument: position one past the last entry
    called,                \* the positions whose entry it invoked, in order
    result,                \* the status it returned (0 for the void walker)
    DefaultPoolType,       \* ucxxrt::DefaultPoolType
    DefaultMdlProtection,  \* ucxxrt::DefaultMdlProtection
    ver,                   \* the last RtlGetVersion: success, major, minor
    poolRuns,              \* how many times _initialize_pool has run
    tpc,                   \* each thread's place in its atexit call
    targ,                  \* each thread's call: the arguments it passed to
                           \* _register_onexit_function, the record it got, its status
    phase,                 \* "running" until the module has ended, then "ended"
    xp,                    \* the pre-terminator table [__xp_a, __xp_z)
    xt,                    \* the terminator table [__xt_a, __xt_z)
    trace,                 \* what the module end invoked, in order: table entries
                           \* (table, position) and callbacks
    dpc,                   \* the place of the drain in progress: "idle" before it,
                           \* "loop" at the test of the while, "callback" while a
                           \* record's callback runs, "done" once it has returned
    dentry,                \* its local `entry`
    dnext,                 \* its local `next`
    dstart,                \* the callbacks of the records on the chain when it started
    dfirst                 \* the first callback registered after it started

regvars == <<s_onexit_table, s_quick_onexit_table, heap, live, invoked, crashed,
             uaf, lastOp, nextFn, regN, quickFns, failedFns, everInvoked>>

tablevars == <<walker, array, first, last, called, result>>

poolvars == <<DefaultPoolType, DefaultMdlProtection, ver, poolRuns>>

racevars == <<tpc, targ>>

lifevars == <<phase, xp, xt, trace>>

drainvars == <<dpc, dentry, dnext, dstart, dfirst>>

auxvars == <<racevars, lifevars, drainvars>>

vars == <<regvars, tablevars, poolvars, auxvars>>

\* ------------------------------------------------------------ table walkers
\* What the function a table entry points to returns when called, for the
\* status-returning tables: functions 1 and 2 succeed, the others fail with
\* a status of their own (positive or negative).
Status(f) ==
    IF f <= 2 THEN 0 ELSE IF f % 2 = 1 THEN f ELSE 0 - f

\* The loop of _initterm at `it`: the positions invoked so far are `calls`.
RECURSIVE initterm_loop(_, _, _, _)
initterm_loop(tbl, it, lst, calls) ==
    IF it = lst THEN calls
    ELSE IF tbl[it] = NULL
         THEN initterm_loop(tbl, it + 1, lst, calls)
         ELSE initterm_loop(tbl, it + 1, lst, Append(calls, it))

\* Mutant of _initterm: `break` where the code has `continue`, so the walk
\* ends at the first null entry.
RECURSIVE initterm_break_loop(_, _, _, _)
initterm_break_loop(tbl, it, lst, calls) ==
    IF it = lst \/ tbl[it] = NULL THEN calls
    ELSE initterm_break_loop(tbl, it + 1, lst, Append(calls, it))

Mutant_initterm_break(tbl, fst, lst) ==
    initterm_break_loop(tbl, fst, lst, <<>>)

\* _initterm(first, last) over the array tbl: the positions it invokes.
_initterm(tbl, fst, lst) ==
    initterm_loop(tbl, fst, lst, <<>>)

\* The loop of _initterm_e at `it`.
RECURSIVE initterm_e_loop(_, _, _, _)
initterm_e_loop(tbl, it, lst, calls) ==
    IF it = lst THEN [calls |-> calls, ret |-> 0]
    ELSE IF tbl[it] = NULL
         THEN initterm_e_loop(tbl, it + 1, lst, calls)
         ELSE LET res == Status(tbl[it])
              IN  IF res # 0
                  THEN [calls |-> Append(calls, it), ret |-> res]
                  ELSE initterm_e_loop(tbl, it + 1, lst, Append(calls, it))

\* Mutant of _initterm_e: the nonzero status is kept and returned at the end
\* of the range instead of at once.
RECURSIVE initterm_e_late_loop(_, _, _, _, _)
initterm_e_late_loop(tbl, it, lst, calls, ret) ==
    IF it = lst THEN [calls |-> calls, ret |-> ret]
    ELSE IF tbl[it] = NULL
         THEN initterm_e_late_loop(tbl, it + 1, lst, calls, ret)
         ELSE initterm_e_late_loop(tbl, it + 1, lst, Append(calls, it),
                                   IF Status(tbl[it]) # 0 THEN Status(tbl[it]) ELSE ret)

Mutant_initterm_e_late(tbl, fst, lst) ==
    initterm_e_late_loop(tbl, fst, lst, <<>>, 0)

\* Mutant of _initterm_e: the null test is missing, so a null entry is
\* called like any other.
RECURSIVE initterm_e_nonull_loop(_, _, _, _)
initterm_e_nonull_loop(tbl, it, lst, calls) ==
    IF it = lst THEN [calls |-> calls, ret |-> 0]
    ELSE LET res == Status(tbl[it])
         IN  IF res # 0
             THEN [calls |-> Append(calls, it), ret |-> res]
             ELSE initterm_e_nonull_loop(tbl, it + 1, lst, Append(calls, it))

Mutant_initterm_e_nonull(tbl, fst, lst) ==
    initterm_e_nonull_loop(tbl, fst, lst, <<>>)

\* _initterm_e(first, last) over the array tbl: the positions it invokes and
\* the status it returns.
_initterm_e(tbl, fst, lst) ==
    initterm_e_loop(tbl, fst, lst, <<>>)

\* The arrays a range can point into: each entry NULL or a function.
Tables == UNION {[1..n -> 0..MaxFn] : n \in 0..MaxLen}

\* A call of _initterm on the range the linker laid out.
Call_initterm ==
    /\ called' = _initterm(array, first, last)
    /\ result' = 0
    /\ walker' = "_initterm"
    /\ UNCHANGED <<array, first, last, regvars, poolvars, auxvars>>

\* A call of _initterm_e on the range the linker laid out.
Call_initterm_e ==
    /\ LET r == _initterm_e(array, first, last)
       IN  /\ called' = r.calls
           /\ result' = r.ret
    /\ walker' = "_initterm_e"
    /\ UNCHANGED <<array, first, last, regvars, poolvars, auxvars>>

\* -------------------------------------------------------------- pool policy
\* The values ucxxrt::DefaultPoolType and ucxxrt::DefaultMdlProtection are
\* defined with, outside startup.cpp (MdlMappingNoExecute is 0x40000000).
InitialPoolType == "NonPagedPoolNx"
InitialMdlProtection == 1073741824

\* Mutant of _initialize_pool: the minor version is compared with <= 2.
Mutant_initialize_pool_le(ok, major, minor) ==
    IF ~ok
    THEN [type |-> DefaultPoolType, mdl |-> DefaultMdlProtection]
    ELSE IF (major < 6) \/ (major = 6 /\ minor <= 2)
         THEN [type |-> "NonPagedPool", mdl |-> 0]
         ELSE [type |-> DefaultPoolType, mdl |-> DefaultMdlProtection]

\* Mutant of _initialize_pool: the status of RtlGetVersion is not tested.
Mutant_initialize_pool_ignores_status(ok, major, minor) ==
    IF (major < 6) \/ (major = 6 /\ minor < 2)
    THEN [type |-> "NonPagedPool", mdl |-> 0]
    ELSE [type |-> DefaultPoolType, mdl |-> DefaultMdlProtection]

\* Mutant of _initialize_pool: a version at or past the threshold assigns the
\* default values again.
Mutant_initialize_pool_restores(ok, major, minor) ==
    IF ~ok
    THEN [type |-> DefaultPoolType, mdl |-> DefaultMdlProtection]
    ELSE IF (major < 6) \/ (major = 6 /\ minor < 2)
         THEN [type |-> "NonPagedPool", mdl |-> 0]
         ELSE [type |-> InitialPoolType, mdl |-> InitialMdlProtection]

\* _initialize_pool with the outcome of its RtlGetVersion call: the values
\* of the two policy variables when it returns.
_initialize_pool(ok, major, minor) ==
    IF ~ok
    THEN [type |-> DefaultPoolType, mdl |-> DefaultMdlProtection]
    ELSE IF (major < 6) \/ (major = 6 /\ minor < 2)
         THEN [type |-> "NonPagedPool", mdl |-> 0]
         ELSE [type |-> DefaultPoolType, mdl |-> DefaultMdlProtection]

Call_initialize_pool ==
    /\ poolRuns < MaxPoolRuns
    /\ \E ok \in BOOLEAN : \E major \in 0..MaxMajor : \E minor \in 0..MaxMinor :
         LET r == _initialize_pool(ok, major, minor)
         IN  /\ DefaultPoolType' = r.type
             /\ DefaultMdlProtection' = r.mdl
             /\ ver' = [ok |-> ok, major |-> major, minor |-> minor]
    /\ poolRuns' = poolRuns + 1
    /\ UNCHANGED <<regvars, tablevars, auxvars>>

\* ---------------------------------------------------------------- registry
\* struct onexit_entry and its constructor.
onexit_entry(next, destructor) ==
    [_next |-> next, _destructor |-> destructor]

\* The addresses no record was ever built and deleted at. (A deleted record
\* has a non-null callback: deleting one with a null callback faults.)
Fresh ==
    {a \in Addr : a \notin live /\ heap[a] = onexit_entry(NULL, NULL)}

\* new onexit_entry(...): nullptr when the pool has nothing to give (always
\* possible, certain when every address is live), the address of any record
\* deleted before, or the next address never used so far.
operator_new ==
    {NULL} \cup ((Addr \ live) \ Fresh)
           \cup {a \in Fresh : \A b \in Fresh : a <= b}

\* Mutant of _register_onexit_function: the head is assigned before the
\* result of new is tested.
Mutant_register_head_before_test(table, function, entry) ==
    IF entry = NULL
    THEN [ret |-> -1,
          normal |-> entry, quick |-> s_quick_onexit_table,
          heap |-> heap, live |-> live]
    ELSE [ret |-> 0,
          normal |-> entry, quick |-> s_quick_onexit_table,
          heap |-> [heap EXCEPT ![entry] = onexit_entry(table, function)],
          live |-> live \cup {entry}]

\* Mutant of _register_onexit_function: the new record is stored in the
\* quick-exit head instead of the normal-exit head.
Mutant_register_writes_quick(table, function, entry) ==
    IF entry = NULL
    THEN [ret |-> -1,
          normal |-> s_onexit_table, quick |-> s_quick_onexit_table,
          heap |-> heap, live |-> live]
    ELSE [ret |-> 0,
          normal |-> s_onexit_table, quick |-> entry,
          heap |-> [heap EXCEPT ![entry] = onexit_entry(table, function)],
          live |-> live \cup {entry}]

\* Mutant of _register_onexit_function: the record is linked to the head
\* as it is when the record is built, not to the value the caller passed.
Mutant_register_links_current_head(table, function, entry) ==
    IF entry = NULL
    THEN [ret |-> -1,
          normal |-> s_onexit_table, quick |-> s_quick_onexit_table,
          heap |-> heap, live |-> live]
    ELSE [ret |-> 0,
          normal |-> entry, quick |-> s_quick_onexit_table,
          heap |-> [heap EXCEPT ![entry] = onexit_entry(s_onexit_table, function)],
          live |-> live \cup {entry}]

\* _register_onexit_function with `entry` the result of its new-expression.
\* Returns the status and the registry it leaves behind.
_register_onexit_function(table, function, entry) ==
    IF entry = NULL
    THEN [ret |-> -1,
          normal |-> s_onexit_table, quick |-> s_quick_onexit_table,
          heap |-> heap, live |-> live]
    ELSE [ret |-> 0,
          normal |-> entry, quick |-> s_quick_onexit_table,
          heap |-> [heap EXCEPT ![entry] = onexit_entry(table, function)],
          live |-> live \cup {entry}]

\* The loop of _execute_onexit_table from `entry` on. `delete entry` runs
\* ~onexit_entry (the callback) and frees the record. A record that was
\* already deleted is undefined behaviour: the walk either faults, or reads
\* the stale bytes, calls the stale callback and frees the record again.
RECURSIVE execute_loop(_, _, _, _, _)
execute_loop(entry, lv, calls, stale, fuel) ==
    IF entry = NULL
    THEN {[calls |-> calls, live |-> lv, crashed |-> FALSE, uaf |-> stale]}
    ELSE LET next == heap[entry]._next
             fn == heap[entry]._destructor
             fault == [calls |-> calls, live |-> lv, crashed |-> TRUE, uaf |-> stale]
         IN  IF entry \in lv
             THEN IF fn = NULL
                  THEN {fault}
                  ELSE execute_loop(next, lv \ {entry}, Append(calls, fn), stale, fuel)
             ELSE {[fault EXCEPT !.uaf = TRUE]} \cup
                  (IF fuel = 0 \/ fn = NULL
                   THEN {}
                   ELSE execute_loop(next, lv, Append(calls, fn), TRUE, fuel - 1))

\* _execute_onexit_table(table): the outcomes of the walk from `table`.
_execute_onexit_table(table) ==
    execute_loop(table, live, <<>>, FALSE, MaxStale)

Range(s) == {s[i] : i \in 1..Len(s)}

\* Mutant of onexit_result: the callback is returned whatever the status.
Mutant_onexit_returns_function(status, function) ==
    function

\* What onexit returns, given the status atexit returned: the callback on
\* success, nullptr otherwise.
onexit_result(status, function) ==
    IF status = 0 THEN function ELSE NULL

\* The facades that register through atexit, and those that return what
\* onexit returns.
NormalFacades == {"atexit", "onexit", "_onexit"}
PointerFacades == {"onexit", "_onexit"}

\* A registration call through `name`, whose facade passes `table`.
Register(name, table, function) ==
    /\ ~crashed
    /\ nextFn <= MaxReg
    /\ \E entry \in operator_new :
         LET r == _register_onexit_function(table, function, entry)
         IN  /\ s_onexit_table' = r.normal
             /\ s_quick_onexit_table' = r.quick
             /\ heap' = r.heap
             /\ live' = r.live
             /\ lastOp' = [name |-> name, fn |-> function, entry |-> entry,
                          ret |-> IF name \in PointerFacades
                                  THEN onexit_result(r.ret, function) ELSE r.ret]
             /\ regN' = IF r.ret = 0 /\ name \in NormalFacades /\ function # NULL
                        THEN Append(regN, function) ELSE regN
             /\ quickFns' = IF r.ret = 0 /\ name = "at_quick_exit"
                            THEN quickFns \cup ({function} \ {NULL}) ELSE quickFns
             /\ failedFns' = IF r.ret # 0
                             THEN failedFns \cup ({function} \ {NULL}) ELSE failedFns
    /\ nextFn' = nextFn + 1
    /\ UNCHANGED <<invoked, crashed, uaf, everInvoked, tablevars, poolvars, auxvars>>

atexit(function) ==
    Register("atexit", s_onexit_table, function)

at_quick_exit(function) ==
    Register("at_quick_exit", s_quick_onexit_table, function)

\* onexit calls atexit and turns its status into a pointer.
onexit(function) ==
    Register("onexit", s_onexit_table, function)

\* _onexit calls onexit.
_onexit(function) ==
    Register("_onexit", s_onexit_table, function)

\* The drain of a slot: _execute_onexit_table on the slot's head. The head
\* is passed by value and the function assigns neither static, so the heads
\* are what they were when it returns.
Drain(name, table) ==
    /\ ~crashed
    /\ \E o \in _execute_onexit_table(table) :
         /\ invoked' = o.calls
         /\ live' = o.live
         /\ crashed' = o.crashed
         /\ uaf' = o.uaf
         /\ lastOp' = [name |-> name, fn |-> NULL, entry |-> table, ret |-> 0]
    /\ everInvoked' = everInvoked \cup Range(invoked')
    /\ UNCHANGED <<s_onexit_table, s_quick_onexit_table, heap, nextFn, quickFns, failedFns,
                   tablevars, poolvars, auxvars>>

DrainNormal ==
    /\ Drain("drain", s_onexit_table)
    /\ regN' = <<>>

DrainQuick ==
    /\ Drain("drain_quick", s_quick_onexit_table)
    /\ UNCHANGED regN

\* ------------------------------------------------- concurrent registration
\* Two threads that each call atexit once, with no lock around the call.
Threads == {1, 2}

\* Thread t enters atexit(function): the argument s_onexit_table of the call
\* at line 171 is read here, before _register_onexit_function runs.
T_atexit(t) ==
    /\ ~crashed
    /\ tpc[t] = "idle"
    /\ nextFn <= MaxReg
    /\ tpc' = [tpc EXCEPT ![t] = "called"]
    /\ targ' = [targ EXCEPT ![t] = [table |-> s_onexit_table, function |-> nextFn,
                                    entry |-> NULL, ret |-> 0]]
    /\ nextFn' = nextFn + 1
    /\ UNCHANGED <<s_onexit_table, s_quick_onexit_table, heap, live, invoked, crashed,
                   uaf, lastOp, regN, quickFns, failedFns, everInvoked,
                   tablevars, poolvars, lifevars, drainvars>>

\* Thread t runs the body of _register_onexit_function with the arguments
\* it passed: the record is built on the head it read, then stored.
T_register(t) ==
    /\ tpc[t] = "called"
    /\ \E entry \in operator_new :
         LET r == _register_onexit_function(targ[t].table, targ[t].function, entry)
         IN  /\ s_onexit_table' = r.normal
             /\ s_quick_onexit_table' = r.quick
             /\ heap' = r.heap
             /\ live' = r.live
             /\ targ' = [targ EXCEPT ![t].entry = entry, ![t].ret = r.ret]
             /\ lastOp' = [name |-> "atexit", fn |-> targ[t].function, entry |-> entry,
                           ret |-> r.ret]
             /\ regN' = IF r.ret = 0 THEN Append(regN, targ[t].function) ELSE regN
             /\ failedFns' = IF r.ret # 0
                             THEN failedFns \cup {targ[t].function} ELSE failedFns
    /\ tpc' = [tpc EXCEPT ![t] = "done"]
    /\ UNCHANGED <<invoked, crashed, uaf, nextFn, quickFns, everInvoked,
                   tablevars, poolvars, lifevars, drainvars>>

\* Registrations made one after the other before the threads start.
RaceSetup ==
    /\ \A t \in Threads : tpc[t] = "idle"
    /\ nextFn + Cardinality(Threads) <= MaxReg
    /\ atexit(nextFn)

\* The drain of the normal-exit slot once both threads have returned.
RaceDrain ==
    /\ \A t \in Threads : tpc[t] = "done"
    /\ lastOp.name # "drain"
    /\ DrainNormal

\* ------------------------------------------------------------- module end
\* The tables the linker lays out for the module end: the marker __xp_a
\* (or __xt_a), a null entry, then the entries contributed to the section.
TermTables ==
    UNION {{<<NULL>> \o t : t \in [1..n -> 0..1]} : n \in 0..MaxTermLen}

\* The events of one table walk: the table's name with each position invoked.
TableEvents(kind, positions) ==
    [i \in 1..Len(positions) |-> [kind |-> kind, id |-> positions[i]]]

\* The events of one drain: each callback invoked.
CallbackEvents(calls) ==
    [i \in 1..Len(calls) |-> [kind |-> "callback", id |-> calls[i]]]

\* Mutant of teardown_trace: the terminators run before the drain.
Mutant_teardown_terminators_first(pre, cbs, term) ==
    pre \o term \o cbs

\* The order of the module end: the pre-terminator table, the drain of the
\* normal-exit registry, the terminator table.
teardown_trace(pre, cbs, term) ==
    pre \o cbs \o term

\* A registration while the module runs.
LifeRegister ==
    /\ phase = "running"
    /\ nextFn <= MaxLifeReg
    /\ \E function \in {NULL, nextFn} : atexit(function) \/ at_quick_exit(function)

\* The module end: _initterm over the pre-terminators, the drain of the
\* normal-exit slot, _initterm over the terminators (not reached when the
\* drain faults).
ModuleEnd ==
    /\ phase = "running"
    /\ ~crashed
    /\ \E o \in _execute_onexit_table(s_onexit_table) :
         /\ invoked' = o.calls
         /\ live' = o.live
         /\ crashed' = o.crashed
         /\ uaf' = o.uaf
         /\ trace' = teardown_trace(
                TableEvents("pre-terminator", _initterm(xp, 1, Len(xp) + 1)),
                CallbackEvents(o.calls),
                IF o.crashed THEN <<>>
                ELSE TableEvents("terminator", _initterm(xt, 1, Len(xt) + 1)))
    /\ lastOp' = [name |-> "drain", fn |-> NULL, entry |-> s_onexit_table, ret |-> 0]
    /\ everInvoked' = everInvoked \cup Range(invoked')
    /\ regN' = <<>>
    /\ phase' = "ended"
    /\ UNCHANGED <<s_onexit_table, s_quick_onexit_table, heap, nextFn, quickFns, failedFns,
                   xp, xt, tablevars, poolvars, racevars, drainvars>>

\* ------------------------------------------------------------ claim helpers
Reverse(s) == [i \in 1..Len(s) |-> s[Len(s) + 1 - i]]

\* The addresses on the chain from `head`, in order, as far as MaxAddr + 1
\* links go (a chain through deleted records may loop).
RECURSIVE ChainFrom(_, _)
ChainFrom(head, n) ==
    IF head = NULL \/ n = 0 THEN <<>>
    ELSE <<head>> \o ChainFrom(heap[head]._next, n - 1)

Chain(head) == ChainFrom(head, MaxAddr + 1)

\* The callbacks of the records on the chain from `head`, in order.
Callbacks(head) ==
    [i \in 1..Len(Chain(head)) |-> heap[Chain(head)[i]]._destructor]

\* ------------------------------------------------------- the drain in steps
\* _execute_onexit_table(s_onexit_table) statement by statement, so that a
\* callback can call back into the registry while the drain is in progress.

\* Registrations before the drain starts.
ReSetup ==
    /\ dpc = "idle"
    /\ \E function \in {NULL, nextFn} : atexit(function) \/ at_quick_exit(function)

\* Lines 157-159: the call with the head by value, `entry = table`.
D_begin ==
    /\ dpc = "idle"
    /\ ~crashed
    /\ dpc' = "loop"
    /\ dentry' = s_onexit_table
    /\ dnext' = NULL
    /\ dstart' = Callbacks(s_onexit_table)
    /\ dfirst' = nextFn
    /\ invoked' = <<>>
    /\ lastOp' = [name |-> "drain", fn |-> NULL, entry |-> s_onexit_table, ret |-> 0]
    /\ UNCHANGED <<s_onexit_table, s_quick_onexit_table, heap, live, crashed, uaf,
                   nextFn, regN, quickFns, failedFns, everInvoked,
                   tablevars, poolvars, racevars, lifevars>>

\* Mutant of drain_next: the walk goes on from the head of the slot as it
\* is after the callback, not from the link read before it.
Mutant_drain_next_from_head(next, head) ==
    head

\* Line 163, `entry = next`: the record the walk goes on to.
drain_next(next, head) ==
    next

\* Lines 160-162 up to the call in ~onexit_entry (line 138): the test of the
\* while, `next = entry->_next`, then `delete entry` runs the destructor,
\* which calls the callback; a null callback faults.
D_read ==
    /\ dpc = "loop"
    /\ dentry # NULL
    /\ dnext' = heap[dentry]._next
    /\ IF heap[dentry]._destructor = NULL
       THEN /\ crashed' = TRUE
            /\ dpc' = "done"
            /\ UNCHANGED <<invoked, everInvoked>>
       ELSE /\ dpc' = "callback"
            /\ invoked' = Append(invoked, heap[dentry]._destructor)
            /\ everInvoked' = everInvoked \cup {heap[dentry]._destructor}
            /\ UNCHANGED crashed
    /\ UNCHANGED <<s_onexit_table, s_quick_onexit_table, heap, live, uaf, lastOp,
                   nextFn, regN, quickFns, failedFns, dentry, dstart, dfirst,
                   tablevars, poolvars, racevars, lifevars>>

\* The callback that is running registers a callback.
D_reenter ==
    /\ dpc = "callback"
    /\ \E function \in {NULL, nextFn} : atexit(function) \/ at_quick_exit(function)

\* The callback returns: `delete entry` releases the record (line 162),
\* `entry = next` (line 163).
D_return ==
    /\ dpc = "callback"
    /\ live' = live \ {dentry}
    /\ dentry' = drain_next(dnext, s_onexit_table)
    /\ dpc' = "loop"
    /\ UNCHANGED <<s_onexit_table, s_quick_onexit_table, heap, invoked, crashed, uaf,
                   lastOp, nextFn, regN, quickFns, failedFns, everInvoked,
                   dnext, dstart, dfirst, tablevars, poolvars, racevars, lifevars>>

\* Lines 160 and 166: `entry` is null, the drain returns 0.
D_end ==
    /\ dpc = "loop"
    /\ dentry = NULL
    /\ dpc' = "done"
    /\ UNCHANGED <<regvars, dentry, dnext, dstart, dfirst,
                   tablevars, poolvars, racevars, lifevars>>

Registrations == {"atexit", "at_quick_exit"}
Drains == {"drain", "drain_quick"}

\* ------------------------------------------------------------------ claims
\* C1: for registrations c1..cN made through atexit with no drain of the
\* normal-exit slot in between, a drain of that slot that returns invokes each
\* of the N callbacks exactly once, in reverse order of registration.
C1_AtexitDrainIsLifo ==
    [][(lastOp'.name = "drain" /\ ~crashed' /\ regN # <<>>)
         => SelectSeq(invoked', LAMBDA f : f \in Range(regN)) = Reverse(regN)]_vars

\* C2: a registration whose allocation fails returns a nonzero status and
\* leaves both heads, every record and the set of live records as they were,
\* and no drain ever invokes the callback of a failed registration.
C2_FailedRegistrationChangesNothing ==
    [][/\ (lastOp'.name \in Registrations /\ lastOp'.entry = NULL /\ nextFn' # nextFn)
           => /\ lastOp'.ret # 0
              /\ UNCHANGED <<s_onexit_table, s_quick_onexit_table, heap, live>>
       /\ failedFns' \cap everInvoked' = {}]_vars

\* C2 witness: a registration has failed with records on the chain, and a
\* later drain has invoked callbacks.
C2_Witness ==
    /\ failedFns # {}
    /\ lastOp.name = "drain"
    /\ Len(invoked) >= 2
    /\ ~crashed

\* C3: the two chains are independent: at_quick_exit leaves the normal-exit
\* head and chain unchanged, atexit leaves the quick-exit head and chain
\* unchanged, and a drain of the normal-exit slot invokes no callback that
\* was registered through at_quick_exit.
C3_ChainsIndependent ==
    [][/\ (lastOp'.name = "at_quick_exit" /\ lastOp'.fn # NULL)
           => /\ s_onexit_table' = s_onexit_table
              /\ Chain(s_onexit_table)' = Chain(s_onexit_table)
       /\ (lastOp'.name = "atexit" /\ lastOp'.fn # NULL)
           => /\ s_quick_onexit_table' = s_quick_onexit_table
              /\ Chain(s_quick_onexit_table)' = Chain(s_quick_onexit_table)
       /\ lastOp'.name = "drain"
           => Range(invoked') \cap quickFns = {}]_vars

\* C4: after a drain of a slot returns, the slot's head is NULL and every
\* record that was on its chain is released; a head never refers to a
\* released record.
C4_DrainLeavesHeadEmpty ==
    /\ (lastOp.name = "drain" /\ ~crashed) => s_onexit_table = NULL
    /\ (lastOp.name = "drain_quick" /\ ~crashed) => s_quick_onexit_table = NULL
    /\ s_onexit_table # NULL => s_onexit_table \in live
    /\ s_quick_onexit_table # NULL => s_quick_onexit_table \in live

\* C5: a drain that follows an earlier drain and new registrations through
\* atexit invokes only the callbacks registered since: none that an earlier
\* drain invoked, and it reaches no released record.
C5_SecondDrainInvokesOnlyNew ==
    [][(lastOp'.name = "drain" /\ everInvoked # {} /\ regN # <<>>)
         => /\ Range(invoked') \cap everInvoked = {}
            /\ Range(invoked') \subseteq Range(regN)
            /\ ~uaf']_vars

\* C6: a drain of an empty slot invokes nothing and leaves the head NULL, and
\* a drain that directly follows a drain of the same slot invokes nothing
\* and releases nothing.
C6_DrainIdempotent ==
    [][/\ (lastOp'.name = "drain" /\ s_onexit_table = NULL)
           => invoked' = <<>> /\ s_onexit_table' = NULL
       /\ (lastOp'.name = "drain" /\ lastOp.name = "drain")
           => invoked' = <<>> /\ live' = live /\ ~uaf']_vars

\* The positions of the range [first, last), those holding a function, and
\* those whose function returns a nonzero status.
InRange == first..(last - 1)
NonNull == {i \in InRange : array[i] # NULL}
Failing == {i \in NonNull : Status(array[i]) # 0}

Min(S) == CHOOSE x \in S : \A y \in S : x <= y

\* The members of a set of positions, each once, in ascending order.
RECURSIVE Ascending(_)
Ascending(S) ==
    IF S = {} THEN <<>> ELSE <<Min(S)>> \o Ascending(S \ {Min(S)})

\* The version threshold of the spec: before 6.2.
BelowThreshold(major, minor) ==
    major < 6 \/ (major = 6 /\ minor < 2)

\* C7: when position k is the first non-null entry that returns nonzero,
\* _initterm_e invokes exactly the non-null entries up to k, each once and in
\* ascending order, and returns the status of entry k; when no entry fails it
\* invokes every non-null entry and returns zero.
C7_InittermEStopsAtFirstFailure ==
    walker = "_initterm_e" =>
        IF Failing = {}
        THEN called = Ascending(NonNull) /\ result = 0
        ELSE /\ called = Ascending({i \in NonNull : i <= Min(Failing)})
             /\ result = Status(array[Min(Failing)])

\* C7 witness: a failing entry with a succeeding entry before it and
\* non-null entries (one of them failing too) after it.
C7_Witness ==
    /\ walker = "_initterm_e"
    /\ Failing # {}
    /\ \E i \in NonNull : i < Min(Failing)
    /\ \E i \in Failing : i > Min(Failing)
    /\ result # 0

\* C8: _initterm invokes every non-null entry of the range exactly once, in
\* ascending order, and no null entry; it never stops early.
C8_InittermInvokesAllNonNull ==
    walker = "_initterm" => called = Ascending(NonNull)

\* C8 witness: a null entry inside the range with non-null entries before
\* and after it, all of them invoked.
C8_Witness ==
    /\ walker = "_initterm"
    /\ \E i, j, k \in InRange :
         i < j /\ j < k /\ array[i] # NULL /\ array[j] = NULL /\ array[k] # NULL
    /\ Len(called) = 2

\* C9: on a range that is empty or holds only null entries, both walkers
\* invoke nothing and _initterm_e returns zero.
C9_NullRangeInvokesNothing ==
    (walker # "none" /\ NonNull = {}) =>
        called = <<>> /\ (walker = "_initterm_e" => result = 0)

\* C9 witness: _initterm_e has run over a range of two or more null entries
\* in an array that holds a failing function outside the range.
C9_Witness ==
    /\ walker = "_initterm_e"
    /\ last - first >= 2
    /\ NonNull = {}
    /\ \E i \in 1..Len(array) : array[i] # NULL /\ Status(array[i]) # 0

\* C10: after the first run of _initialize_pool, with a successful query,
\* the pool type is NonPagedPool and the MDL protection 0 exactly when the
\* version is before 6.2; for any other version both hold their defaults.
C10_PoolPolicyThreshold ==
    (poolRuns = 1 /\ ver.ok) =>
        /\ (DefaultPoolType = "NonPagedPool" /\ DefaultMdlProtection = 0)
             <=> BelowThreshold(ver.major, ver.minor)
        /\ ~BelowThreshold(ver.major, ver.minor)
             => /\ DefaultPoolType = InitialPoolType
                /\ DefaultMdlProtection = InitialMdlProtection

\* C10 witness: the query reported 6.1 and the values were overridden.
C10_Witness ==
    /\ poolRuns = 1 /\ ver.ok
    /\ ver.major = 6 /\ ver.minor = 1
    /\ DefaultPoolType = "NonPagedPool" /\ DefaultMdlProtection = 0

\* C11: onexit and _onexit return the callback they were given when the
\* registration succeeded and nullptr when it failed; on success the new
\* record, holding the callback and the previous normal-exit head, is the
\* normal-exit head, as after atexit; on failure the registry is unchanged.
C11_OnexitDelegatesToAtexit ==
    [][(lastOp'.name \in PointerFacades /\ nextFn' # nextFn)
         => IF lastOp'.entry # NULL
            THEN /\ lastOp'.ret = lastOp'.fn
                 /\ s_onexit_table' = lastOp'.entry
                 /\ heap' = [heap EXCEPT ![lastOp'.entry] =
                                 onexit_entry(s_onexit_table, lastOp'.fn)]
                 /\ live' = live \cup {lastOp'.entry}
                 /\ s_quick_onexit_table' = s_quick_onexit_table
            ELSE /\ lastOp'.ret = NULL
                 /\ UNCHANGED <<s_onexit_table, s_quick_onexit_table, heap, live>>]_vars

\* C11 witness: _onexit has returned the callback it pushed onto a chain
\* that already held a record.
C11_Witness ==
    /\ lastOp.name = "_onexit"
    /\ lastOp.fn # NULL
    /\ lastOp.ret = lastOp.fn
    /\ s_onexit_table = lastOp.entry
    /\ heap[s_onexit_table]._next \in live \ {s_onexit_table}

\* C13: a successful registration pushes onto the slot its facade names:
\* after atexit (or onexit, _onexit) the normal-exit chain is the new record
\* followed by the previous normal-exit chain; after at_quick_exit the
\* quick-exit chain is the new record followed by the previous quick-exit
\* chain, and the normal-exit chain keeps every record it had.
C13_RegistrationIsPush ==
    [][/\ (lastOp'.name \in NormalFacades /\ lastOp'.entry # NULL /\ nextFn' # nextFn)
           => /\ Chain(s_onexit_table)' = <<lastOp'.entry>> \o Chain(s_onexit_table)
              /\ Chain(s_quick_onexit_table)' = Chain(s_quick_onexit_table)
       /\ (lastOp'.name = "at_quick_exit" /\ lastOp'.entry # NULL)
           => /\ Chain(s_quick_onexit_table)'
                   = <<lastOp'.entry>> \o Chain(s_quick_onexit_table)
              /\ Chain(s_onexit_table)' = Chain(s_onexit_table)]_vars

\* C17: the quick-exit head is NULL in every state, and the record a
\* successful at_quick_exit builds (its callback, a null next) is the
\* normal-exit head when the call returns.
C17_QuickRegistrationsLandOnNormalHead ==
    /\ s_quick_onexit_table = NULL
    /\ (lastOp.name = "at_quick_exit" /\ lastOp.entry # NULL)
         => /\ s_onexit_table = lastOp.entry
            /\ heap[s_onexit_table] = onexit_entry(NULL, lastOp.fn)

\* C17 witness: at_quick_exit has succeeded after callbacks were registered
\* through atexit; its record is the normal-exit head.
C17_Witness ==
    /\ lastOp.name = "at_quick_exit"
    /\ lastOp.entry # NULL /\ lastOp.fn # NULL
    /\ Len(regN) >= 2
    /\ s_onexit_table = lastOp.entry
    /\ heap[s_onexit_table]._destructor = lastOp.fn

\* C18: every live record on a chain holds a non-null callback, and onexit
\* (or _onexit) returns nullptr only when the registration failed.
C18_NoNullCallbackOnChain ==
    /\ \A a \in (Range(Chain(s_onexit_table)) \cup Range(Chain(s_quick_onexit_table)))
                  \cap live : heap[a]._destructor # NULL
    /\ (lastOp.name \in PointerFacades /\ lastOp.ret = NULL) => lastOp.entry = NULL

\* C15: a run of _initialize_pool whose version query fails leaves the pool
\* type and the MDL protection as they were, whatever version the query
\* left behind.
C15_FailedQueryChangesNothing ==
    [][(poolRuns' = poolRuns + 1 /\ ~ver'.ok)
         => UNCHANGED <<DefaultPoolType, DefaultMdlProtection>>]_vars

\* C15 witness: a failed query left a version before the threshold behind
\* and both values are still the defaults.
C15_Witness ==
    /\ poolRuns >= 1 /\ ~ver.ok
    /\ ver.major = 5
    /\ DefaultPoolType = InitialPoolType
    /\ DefaultMdlProtection = InitialMdlProtection

\* C16: a run of _initialize_pool with the same query outcome as the run
\* before it changes nothing, and once the values are (NonPagedPool, 0) they
\* stay so through every later run.
C16_PoolPolicyIdempotentNoRollback ==
    [][(poolRuns' = poolRuns + 1)
         => /\ (poolRuns >= 1 /\ ver' = ver)
                 => UNCHANGED <<DefaultPoolType, DefaultMdlProtection>>
            /\ (DefaultPoolType = "NonPagedPool" /\ DefaultMdlProtection = 0)
                 => (DefaultPoolType' = "NonPagedPool" /\ DefaultMdlProtection' = 0)]_vars

\* C16 witness: after an override, a later run saw version 10.0 and the
\* values are still overridden.
C16_Witness ==
    /\ poolRuns = 2
    /\ ver.ok /\ ver.major = 10 /\ ver.minor = 0
    /\ DefaultPoolType = "NonPagedPool" /\ DefaultMdlProtection = 0

\* C14: when both threads' atexit calls succeed after reading the same
\* head, exactly one of the two records is on the chain from the head, and a
\* drain that follows invokes exactly one of the two callbacks.
C14_LostUpdate ==
    \A t, u \in Threads :
        (/\ t # u
         /\ tpc[t] = "done" /\ tpc[u] = "done"
         /\ targ[t].entry # NULL /\ targ[u].entry # NULL
         /\ targ[t].table = targ[u].table)
        => /\ targ[t].ret = 0 /\ targ[u].ret = 0
           /\ (targ[t].entry \in Range(Chain(s_onexit_table)))
                # (targ[u].entry \in Range(Chain(s_onexit_table)))
           /\ lastOp.name = "drain"
                => (targ[t].function \in Range(invoked))
                     # (targ[u].function \in Range(invoked))

\* C14 witness: both calls returned 0, one record is off the chain, and the
\* drain has invoked the callbacks registered before and one of the two.
C14_Witness ==
    /\ \A t \in Threads : tpc[t] = "done" /\ targ[t].ret = 0
    /\ targ[1].table = targ[2].table
    /\ targ[1].table # NULL
    /\ lastOp.name = "drain" /\ ~crashed
    /\ \E t \in Threads : targ[t].function \notin Range(invoked)
    /\ Len(invoked) >= 2

\* The place of an event's kind in the order of the module end.
Rank(kind) ==
    CASE kind = "pre-terminator" -> 1
      [] kind = "callback" -> 2
      [] kind = "terminator" -> 3

\* C12: at the module end every pre-terminator entry is invoked before every
\* registered callback, and every registered callback before every
\* terminator entry; the callbacks are those of the drain of the normal-exit
\* slot, in its order.
C12_TeardownOrder ==
    phase = "ended" =>
        /\ \A i, j \in 1..Len(trace) :
               i < j => Rank(trace[i].kind) <= Rank(trace[j].kind)
        /\ SelectSeq(trace, LAMBDA e : e.kind = "callback") = CallbackEvents(invoked)
        /\ SelectSeq(trace, LAMBDA e : e.kind = "pre-terminator")
              = TableEvents("pre-terminator",
                            Ascending({i \in 1..Len(xp) : xp[i] # NULL}))
        /\ ~crashed => SelectSeq(trace, LAMBDA e : e.kind = "terminator")
              = TableEvents("terminator",
                            Ascending({i \in 1..Len(xt) : xt[i] # NULL}))

\* C12 witness: the module end ran a pre-terminator, two callbacks and a
\* terminator.
C12_Witness ==
    /\ phase = "ended" /\ ~crashed
    /\ Len(invoked) = 2
    /\ \E i \in 1..Len(trace) : trace[i].kind = "pre-terminator"
    /\ \E i \in 1..Len(trace) : trace[i].kind = "terminator"

\* The callbacks still to invoke by the drain in progress: those of the
\* records from `entry` at the test of the while, from `next` while a
\* callback runs.
Remaining ==
    CASE dpc = "loop" -> Callbacks(dentry)
      [] dpc = "callback" -> Callbacks(dnext)
      [] OTHER -> <<>>

\* C19: a drain of the normal-exit slot during which callbacks register
\* further callbacks does not fault, has invoked at the test of each loop
\* turn the callbacks of the start chain up to the record it stands on,
\* each once and in chain order, never a callback registered during the
\* drain, and has invoked exactly the callbacks of the start chain when it
\* returns, after as many turns as the start chain has records.
C19_ReentrantDrainInvokesStartChain ==
    dpc # "idle" =>
        /\ ~crashed
        /\ invoked \o Remaining = dstart
        /\ \A i \in 1..Len(invoked) : invoked[i] < dfirst
        /\ \A i, j \in 1..Len(invoked) : invoked[i] = invoked[j] => i = j
        /\ dpc = "loop" => (ENABLED D_read \/ ENABLED D_end)
        /\ dpc = "callback" => ENABLED D_return

\* The same for a drain whose start chain holds no null callback.
ReentrantDrainOfCallableChain ==
    (dpc # "idle" /\ \A i \in 1..Len(dstart) : dstart[i] # NULL)
        => C19_ReentrantDrainInvokesStartChain

\* A drain that returned after a callback of its start chain registered a
\* callback.
ReentrantDrainReturned ==
    /\ dpc = "done" /\ ~crashed
    /\ Len(dstart) >= 2
    /\ \A i \in 1..Len(dstart) : dstart[i] # NULL
    /\ nextFn > dfirst
    /\ s_onexit_table # NULL /\ heap[s_onexit_table]._destructor >= dfirst

\* --------------------------------------------------------------- behaviours
InitRegistry ==
    /\ s_onexit_table = NULL
    /\ s_quick_onexit_table = NULL
    /\ heap = [a \in Addr |-> onexit_entry(NULL, NULL)]
    /\ live = {}
    /\ invoked = <<>>
    /\ crashed = FALSE
    /\ uaf = FALSE
    /\ lastOp = [name |-> "none", fn |-> NULL, entry |-> NULL, ret |-> 0]
    /\ nextFn = 1
    /\ regN = <<>>
    /\ quickFns = {}
    /\ failedFns = {}
    /\ everInvoked = {}

\* No table laid out: the state of the walkers where they are not run.
InitTable ==
    /\ walker = "none"
    /\ array = <<>>
    /\ first = 1
    /\ last = 1
    /\ called = <<>>
    /\ result = 0

\* Any array and any valid range [first, last) into it, no walker run yet.
InitAnyTable ==
    /\ walker = "none"
    /\ array \in Tables
    /\ first \in 1..(Len(array) + 1)
    /\ last \in first..(Len(array) + 1)
    /\ called = <<>>
    /\ result = 0

InitPool ==
    /\ DefaultPoolType = InitialPoolType
    /\ DefaultMdlProtection = InitialMdlProtection
    /\ ver = [ok |-> FALSE, major |-> 0, minor |-> 0]
    /\ poolRuns = 0

InitRace ==
    /\ tpc = [t \in Threads |-> "idle"]
    /\ targ = [t \in Threads |->
                 [table |-> NULL, function |-> NULL, entry |-> NULL, ret |-> 0]]

\* No table laid out for the module end: the state where it is not run.
InitLife ==
    /\ phase = "running"
    /\ xp = <<NULL>>
    /\ xt = <<NULL>>
    /\ trace = <<>>

\* Any pre-terminator and terminator table.
InitAnyLife ==
    /\ phase = "running"
    /\ xp \in TermTables
    /\ xt \in TermTables
    /\ trace = <<>>

\* No drain in progress.
InitDrain ==
    /\ dpc = "idle"
    /\ dentry = NULL
    /\ dnext = NULL
    /\ dstart = <<>>
    /\ dfirst = 0

InitAux == InitRace /\ InitLife /\ InitDrain

Init == InitRegistry /\ InitTable /\ InitPool /\ InitAux

InitWalk == InitRegistry /\ InitAnyTable /\ InitPool /\ InitAux

InitModule == InitRegistry /\ InitTable /\ InitPool /\ InitRace /\ InitAnyLife /\ InitDrain

Next ==
    \/ \E function \in {NULL, nextFn} : atexit(function)
    \/ \E function \in {NULL, nextFn} : at_quick_exit(function)
    \/ \E function \in {NULL, nextFn} : onexit(function)
    \/ \E function \in {NULL, nextFn} : _onexit(function)
    \/ DrainNormal
    \/ DrainQuick

\* The registry: registrations and drains in any order.
Spec == Init /\ [][Next]_vars

NextTable ==
    \/ Call_initterm
    \/ Call_initterm_e

\* The table walkers, on any array and any valid range into it.
SpecTable == InitWalk /\ [][NextTable]_vars

NextPool == Call_initialize_pool

NextLife ==
    \/ LifeRegister
    \/ ModuleEnd

\* One life of the module: registrations, then the module end.
SpecLife == InitModule /\ [][NextLife]_vars

NextReenter ==
    \/ ReSetup
    \/ D_begin
    \/ D_read
    \/ D_reenter
    \/ D_return
    \/ D_end

\* Registrations, then one drain of the normal-exit slot whose callbacks
\* may register.
SpecReenter == Init /\ [][NextReenter]_vars

NextRace ==
    \/ RaceSetup
    \/ \E t \in Threads : T_atexit(t)
    \/ \E t \in Threads : T_register(t)
    \/ RaceDrain

\* Two unsynchronised atexit calls, after some registrations and before the
\* drain.
SpecRace == Init /\ [][NextRace]_vars

\* The pool policy selection, on any outcome of the version query.
SpecPool == Init /\ [][NextPool]_vars
====
